---- MODULE Spec2Model ----
(***************************************************************************)
(* The arbitrage tool of src/app.py as a state machine.                    *)
(*                                                                         *)
(* Shared state: the price cache LIVE_PRICES, the lot-size cache           *)
(* LOT_SIZE_CACHE and the ledger trade_history (app.py 55-61).  Each HTTP  *)
(* request runs trigger_execute_trade (384-485) on a thread of its own;    *)
(* the scheduler thread runs check_arbitrage_opportunities (488-510); the  *)
(* two websocket threads write the price cache (314-322).  Every blocking  *)
(* call to a venue is one step of its thread, taken together with the      *)
(* straight-line code that follows it up to the next blocking call.  When  *)
(* trigger_execute_trade returns, its locals are gone: the thread keeps    *)
(* the answer it gave and the history fields the properties read.          *)
(*                                                                         *)
(* Besides the program's state there are two observers.  `calls` counts    *)
(* the outbound calls to the venues named in server.metered since the      *)
(* current time window began (SpecRate counts OKX's; elsewhere none is     *)
(* counted).  `calc` holds the arguments and the result of a pure function *)
(* called on its own (SpecCalc; elsewhere it is NoCalc).                   *)
(*                                                                         *)
(* Numbers.  Prices are whole quote-currency units.  Quantities are        *)
(* integers counted in 1/QtyScale.  Money amounts are integers whose scale *)
(* is stated where they are defined; signs and comparisons are those of    *)
(* the real-number values the code computes.                               *)
(*                                                                         *)
(* Collaborators.  Logging (63-78) and the HTTP transport are taken to     *)
(* work as libraries: a log call returns, an HTTP call yields one of the   *)
(* outcomes a venue or the network can produce.  (As written, app.py       *)
(* 77-78 rebind the logger's methods to lambdas that call themselves, and  *)
(* the module `requests` is used without an import; with either taken      *)
(* literally no order call would ever be reached.)                         *)
(***************************************************************************)
EXTENDS Integers, Sequences, FiniteSets, TLC

\* ---------------------------------------------------------------- bounds
MaxRuns == 1          \* trigger requests sent to the server in one behaviour
MaxThreads == 1       \* request threads of the server

\* ------------------------------------------------------ program constants
min_notional == 10    \* app.py 415
tries == 3            \* app.py 230, 267: @retry(RequestException, tries=3)

BINANCE_RATE_LIMIT == 1200         \* app.py 81, calls per BINANCE_PERIOD = 60 s
OKX_RATE_LIMIT == 20               \* app.py 83, calls per OKX_PERIOD = 2 s

QtyScale == 10 ^ 4                 \* quantity units per 1.0
MinQty == QtyScale \div 100        \* 0.01, app.py 416 and 495
FeeDen == 10 * 100                 \* fees are 0.001 = 1/FeeDen, app.py 307

Venues == {"Binance", "OKX"}       \* app.py 58, 393

\* app.py 46-52, restricted to one canonical symbol
SUPPORTED_SYMBOLS ==
    [s \in {"BTC"} |-> [binance |-> s \o "USDT", okx |-> s \o "-USDT"]]

NativeSymbols(v) ==
    {IF v = "Binance" THEN SUPPORTED_SYMBOLS[s].binance ELSE SUPPORTED_SYMBOLS[s].okx :
        s \in DOMAIN SUPPORTED_SYMBOLS}

\* ------------------------------------------------------------ input sets
Prices == {100, 300}               \* prices a feed message can carry
FillPrices == {100, 300, 480, 481} \* fill prices a venue can report
StepSizes == {100}                 \* stepSize values of exchangeInfo: 0.01
PathSymbols == {"BTC", "btc", "DOGE"}
PathExchanges == {"Binance", "OKX", "Kraken"}
ApiKeys == {"APP_API_KEY", "wrong"}

NoPx == 0      \* the response carries no price field, or an empty one
NoId == 0      \* 'N/A' (or the empty ordId of a rejection): no order id

VARIABLES
    LIVE_PRICES,      \* app.py 58: venue -> (native symbol -> price)
    LOT_SIZE_CACHE,   \* app.py 55: native symbol -> <<step_size, precision>>
    trade_history,    \* app.py 61: the ledger, newest first
    run,              \* thread -> the locals and position of its request
    started,          \* number of requests served so far
    server,           \* the deployment: its request threads, the requests it is sent
    calls,            \* venue -> outbound calls counted in the current time window
    calc              \* the arguments and results of the pure functions called on their own

vars == <<LIVE_PRICES, LOT_SIZE_CACHE, trade_history, run, started, server, calls, calc>>

Threads == 1 .. server.threads

\* ---------------------------------------------------------- pure helpers

\* Python's round(): n/d to the nearest integer, ties to even (n >= 0, d > 0)
RoundHalfEven(n, d) ==
    LET q == n \div d
        r == n % d
    IN  IF 2 * r < d THEN q
        ELSE IF 2 * r > d THEN q + 1
        ELSE IF q % 2 = 0 THEN q ELSE q + 1

\* round() of a possibly negative n/d
RoundSigned(n, d) == IF n >= 0 THEN RoundHalfEven(n, d) ELSE 0 - RoundHalfEven(0 - n, d)

RECURSIVE Decimals(_, _)
\* number of digits str() prints after the point for step/QtyScale, counted from p
Decimals(step, p) ==
    IF (step * (10 ^ p)) % QtyScale = 0 \/ 10 ^ p >= QtyScale THEN p
    ELSE Decimals(step, p + 1)

\* app.py 153: len(str(step_size).split('.')[1]); str() of a float always
\* prints at least one digit after the point
Precision(step) == Decimals(step, 1)

\* app.py 416: raw_quantity = max(0.01, min_notional / buy_price) if buy_price > 0
\* else 0.01, as the fraction <<n, d>> of quantity units
raw_quantity(buy_price) ==
    IF buy_price > 0 /\ min_notional * QtyScale > MinQty * buy_price
    THEN <<min_notional * QtyScale, buy_price>>
    ELSE <<MinQty, 1>>

\* app.py 161-163: round(quantity / step_size) * step_size, then printed with
\* `precision` decimals and read back
round_quantity(quantity, step_size, precision) ==
    LET rounded == RoundHalfEven(quantity[1], quantity[2] * step_size) * step_size
        unit == QtyScale \div (10 ^ precision)
    IN  RoundHalfEven(rounded, unit) * unit

\* the sell fee added to the revenue instead of taken from it
calculate_profitability_fee_added(buy_price, sell_price, quantity, buy_fee, sell_fee) ==
    sell_price * quantity * (FeeDen + sell_fee) - buy_price * quantity * (FeeDen + buy_fee)

\* app.py 307-310 with its fee arguments given, in units of 1/FeeDen:
\* sell_revenue - buy_cost, scaled by FeeDen * QtyScale
calculate_profitability_at(buy_price, sell_price, quantity, buy_fee, sell_fee) ==
    sell_price * quantity * (FeeDen - sell_fee) - buy_price * quantity * (FeeDen + buy_fee)

default_fee == 1      \* app.py 307: buy_fee=0.001, sell_fee=0.001

\* app.py 307-311 as every call of the program makes it, the fees left at their
\* defaults: profit, scaled by FeeDen * QtyScale
calculate_profitability(buy_price, sell_price, quantity) ==
    calculate_profitability_at(buy_price, sell_price, quantity, default_fee, default_fee)

\* app.py 311: buy_cost * buy_fee, scaled by FeeDen * FeeDen * QtyScale
BuyFee(buy_price, quantity) == buy_price * quantity * (FeeDen + 1)

\* app.py 311: sell_revenue * sell_fee, scaled by FeeDen * FeeDen * QtyScale
SellFee(sell_price, quantity) == sell_price * quantity * (FeeDen - 1)

\* the size of the rounded profit, its sign dropped
RoundedProfitUnsigned(profit) ==
    IF profit >= 0 THEN RoundHalfEven(profit, (FeeDen * QtyScale) \div 100)
    ELSE RoundHalfEven(0 - profit, (FeeDen * QtyScale) \div 100)

\* app.py 470: round(profit, 2), in cents
RoundedProfit(profit) == RoundSigned(profit, (FeeDen * QtyScale) \div 100)

\* app.py 403-404: LIVE_PRICES[venue].get(native, 0)
PriceGet(v, native) ==
    IF native \in DOMAIN LIVE_PRICES[v] THEN LIVE_PRICES[v][native] ELSE 0

\* app.py 390: symbol.upper()
Upper(s) == IF s = "btc" THEN "BTC" ELSE s

\* ----------------------------------------- the pure functions on their own

CalcPrices == {1, 3, 100, 300, 1000}         \* prices, all above 0
CalcSteps == {1, 10, 100, 1000, 10000}       \* step sizes 0.0001, 0.001, 0.01, 0.1, 1.0
CalcQuantities == {100, 300, 1000}           \* quantities 0.01, 0.03, 0.1
FeeRates == {0, 1, 2, 5}                     \* fee rates 0, 0.001, 0.002, 0.005

\* no pure function is called on its own
NoCalc ==
    [fn |-> "none", buy_price |-> 0, sell_price |-> 0, step_size |-> 0, quantity |-> 0,
     buy_fee |-> 0, sell_fee |-> 0, called |-> FALSE, result |-> 0]

\* the arguments of the quantity computation of app.py 416-420: a price and the
\* step size of a LOT_SIZE filter
QuantityArguments ==
    {[NoCalc EXCEPT !.fn = "quantity", !.buy_price = p, !.step_size = s] :
        p \in CalcPrices, s \in CalcSteps}

\* app.py 416 and 420 with the precision of 153: the quantity of a run that
\* reads buy_price and is given step_size
call_round_quantity ==
    /\ calc.fn = "quantity"
    /\ ~calc.called
    /\ calc' = [calc EXCEPT !.called = TRUE,
                            !.result = round_quantity(raw_quantity(calc.buy_price),
                                           calc.step_size, Precision(calc.step_size))]
    /\ UNCHANGED <<LIVE_PRICES, LOT_SIZE_CACHE, trade_history, run, started, server, calls>>

\* the arguments of calculate_profitability (app.py 307): prices and a quantity
\* above 0, and the two fee rates
ProfitArguments ==
    {[NoCalc EXCEPT !.fn = "profit", !.buy_price = bp, !.sell_price = sp, !.quantity = q,
                    !.buy_fee = bf, !.sell_fee = sf] :
        bp \in CalcPrices, sp \in CalcPrices, q \in CalcQuantities,
        bf \in FeeRates, sf \in FeeRates}

\* app.py 307-311: calculate_profitability is called and returns its profit
call_calculate_profitability ==
    /\ calc.fn = "profit"
    /\ ~calc.called
    /\ calc' = [calc EXCEPT !.called = TRUE,
                            !.result = calculate_profitability_at(calc.buy_price,
                                           calc.sell_price, calc.quantity,
                                           calc.buy_fee, calc.sell_fee)]
    /\ UNCHANGED <<LIVE_PRICES, LOT_SIZE_CACHE, trade_history, run, started, server, calls>>

\* ------------------------------------------------------ the call budgets

\* app.py 80-84: the calls a venue allows in one window of its period
Budget(v) == IF v = "Binance" THEN BINANCE_RATE_LIMIT ELSE OKX_RATE_LIMIT

\* n(v) more outbound calls are made to each venue v.  No code stands between
\* a caller and requests.get / requests.post (app.py 89, 95, 145, 180, 213,
\* 251, 291): every call goes out at once.  The count of a venue stops one
\* above its budget.
Called(n) ==
    [v \in Venues |->
        IF v \in server.metered /\ calls[v] + n[v] <= Budget(v) THEN calls[v] + n[v]
        ELSE IF v \in server.metered THEN Budget(v) + 1
        ELSE calls[v]]

\* n calls to the one venue
CalledVenue(venue, n) == Called([v \in Venues |-> IF v = venue THEN n ELSE 0])

\* app.py 353-372: the dashboard is loaded.  fetch_all_prices makes one call to
\* Binance and one call per symbol to OKX (112, 122-126); each balance fetch
\* makes the server-time call and the account call (169, 180, 201, 213).
dashboard ==
    /\ calls' = Called([v \in Venues |->
                    IF v = "Binance" THEN 1 + 2
                    ELSE Cardinality(DOMAIN SUPPORTED_SYMBOLS) + 2])
    /\ UNCHANGED <<LIVE_PRICES, LOT_SIZE_CACHE, trade_history, run, started, server, calc>>

\* the window of the venue's period ends and another begins
window_passes(v) ==
    /\ calls' = [calls EXCEPT ![v] = 0]
    /\ UNCHANGED <<LIVE_PRICES, LOT_SIZE_CACHE, trade_history, run, started, server, calc>>

\* ------------------------------------------------------- a request thread

\* what execute_binance_trade / execute_okx_trade handed back: nothing yet,
\* the venue's JSON body, or the {"error": ...} dict of app.py 264, 304
NoResponse == [kind |-> "none", accepted |-> FALSE, id |-> NoId, px |-> NoPx]

ErrorResponse == [kind |-> "error", accepted |-> FALSE, id |-> NoId, px |-> NoPx]

\* a thread that serves no request.  buy_posted, sell_posted, buy_filled,
\* sell_filled and wrote are history fields of the run: an order request of
\* that leg was sent, the call of that leg returned an accepted order, the
\* number of ledger entries the run inserted.  rejections and accepted are
\* history fields of the order call in progress: how many of its order
\* requests the venue has answered with an error status, how many it has
\* accepted.  buy_quantity and sell_quantity are the quantity of the last
\* order request sent for the leg while the run is in progress (0: none sent).
IdleRun ==
    [pc |-> "idle", symbol |-> "", buy_exchange |-> "", sell_exchange |-> "",
     binance_price |-> 0, okx_price |-> 0, quantity |-> 0, attempt |-> 0,
     buy_response |-> NoResponse, sell_response |-> NoResponse,
     status |-> 0, message |-> "",
     buy_posted |-> FALSE, sell_posted |-> FALSE,
     buy_filled |-> FALSE, sell_filled |-> FALSE, wrote |-> 0,
     rejections |-> 0, accepted |-> 0, buy_quantity |-> 0, sell_quantity |-> 0]

\* app.py 407-412: the quotes in the run's direction
QuoteBuy(r) == IF r.buy_exchange = "Binance" THEN r.binance_price ELSE r.okx_price

QuoteSell(r) == IF r.buy_exchange = "Binance" THEN r.okx_price ELSE r.binance_price

\* the request is answered: a return of trigger_execute_trade, an abort(), or
\* an exception that leaves it
Answer(r, status, message) ==
    [IdleRun EXCEPT !.pc = "done", !.status = status, !.message = message,
                    !.symbol = r.symbol,
                    !.buy_posted = r.buy_posted, !.sell_posted = r.sell_posted,
                    !.buy_filled = r.buy_filled, !.sell_filled = r.sell_filled,
                    !.wrote = r.wrote]

\* a failed lookup that falls back on a default step instead of (None, None)
LotFailureDefault == <<100, 2>>

\* app.py 158: what get_binance_lot_size returns when the lookup failed
LotFailure == <<0, 0>>

\* app.py 418: `if not step_size`
LotMissing(lot) == lot[1] = 0

\* the check with `<` for `<=`
NotProfitableStrict(profit) == profit < 0

\* app.py 424: `if profit <= 0`
NotProfitable(profit) == profit <= 0

\* app.py 418-425: from the lot size to the profitability check
Validate(r, lot) ==
    IF LotMissing(lot) THEN Answer(r, 500, "LOT_SIZE not found")
    ELSE LET quantity == round_quantity(raw_quantity(QuoteBuy(r)), lot[1], lot[2])
             profit == calculate_profitability(QuoteBuy(r), QuoteSell(r), quantity)
         IN  IF NotProfitable(profit)
             THEN Answer(r, 400, "Trade not profitable after fees")
             ELSE [r EXCEPT !.quantity = quantity, !.pc = "buy", !.attempt = 1]

\* only the buy venue's name tested
InvalidExchangeBuyOnly(buy_exchange, sell_exchange) == buy_exchange \notin Venues

\* app.py 393: either name is not one of "Binance", "OKX"
InvalidExchange(buy_exchange, sell_exchange) ==
    buy_exchange \notin Venues \/ sell_exchange \notin Venues

\* app.py 348, 392, 394, 396: the descriptions of the abort() answers
AbortDescriptions ==
    {"Invalid or missing API key", "Invalid symbol", "Invalid exchange",
     "Buy and sell exchanges must be different"}

\* app.py 343-350 and 386-417: authentication, input validation, the two quote
\* reads and the cache test of get_binance_lot_size (141-142)
trigger_execute_trade(t, api_key, path_symbol, buy_exchange, sell_exchange) ==
    /\ run[t].pc \in {"idle", "done"}
    /\ \A u \in Threads : u < t => run[u].pc # "idle"    \* threads are taken in order
    /\ started < server.requests
    /\ started' = started + 1
    /\ LET symbol == Upper(path_symbol)
           r0 == [IdleRun EXCEPT !.symbol = symbol, !.buy_exchange = buy_exchange,
                                 !.sell_exchange = sell_exchange]
       IN  run' = [run EXCEPT ![t] =
             IF api_key # "APP_API_KEY" THEN Answer(IdleRun, 401, "Invalid or missing API key")
             ELSE IF symbol \notin DOMAIN SUPPORTED_SYMBOLS
                  THEN Answer(IdleRun, 400, "Invalid symbol")
             ELSE IF InvalidExchange(buy_exchange, sell_exchange)
                  THEN Answer(IdleRun, 400, "Invalid exchange")
             ELSE IF buy_exchange = sell_exchange
                  THEN Answer(IdleRun, 400, "Buy and sell exchanges must be different")
             ELSE LET binance_symbol == SUPPORTED_SYMBOLS[symbol].binance
                      okx_symbol == SUPPORTED_SYMBOLS[symbol].okx
                      r1 == [r0 EXCEPT !.binance_price = PriceGet("Binance", binance_symbol),
                                       !.okx_price = PriceGet("OKX", okx_symbol)]
                  IN  IF binance_symbol \in DOMAIN LOT_SIZE_CACHE
                      THEN Validate(r1, LOT_SIZE_CACHE[binance_symbol])
                      ELSE [r1 EXCEPT !.pc = "exchangeInfo"]]
    /\ UNCHANGED <<LIVE_PRICES, LOT_SIZE_CACHE, trade_history, server, calls, calc>>

\* app.py 144-158: the exchangeInfo call of get_binance_lot_size answers with a
\* LOT_SIZE filter, which is cached, or the lookup fails
exchangeInfo(t, found, step_size) ==
    /\ run[t].pc = "exchangeInfo"
    /\ LET binance_symbol == SUPPORTED_SYMBOLS[run[t].symbol].binance
           lot == IF found THEN <<step_size, Precision(step_size)>> ELSE LotFailure
       IN  /\ LOT_SIZE_CACHE' =
                 IF found
                 THEN [k \in DOMAIN LOT_SIZE_CACHE \cup {binance_symbol} |->
                          IF k = binance_symbol THEN lot ELSE LOT_SIZE_CACHE[k]]
                 ELSE LOT_SIZE_CACHE
           /\ run' = [run EXCEPT ![t] = Validate(run[t], lot)]
    /\ calls' = CalledVenue("Binance", 1)
    /\ UNCHANGED <<LIVE_PRICES, trade_history, started, server, calc>>

\* ------------------------------------------------------------ the venues

\* what one attempt of an order call can meet:
\*   error         an exception other than RequestException before the order
\*                 request is sent (the server-time answer cannot be read)
\*   post_timeout  the order request is sent and fails in transport, no order made
\*   post_lost     the order request is sent and accepted, its answer is lost
\*   http_error    the venue answers the order request with an error status
\*   rejected      the venue answers 200 with a body that carries its error code
\*   filled        the venue accepts the order and answers with id and price
\* OKX reports order-level errors inside a 200 answer; Binance uses the status.
Outcomes(venue) ==
    {"error", "post_timeout", "post_lost", "http_error", "filled"}
        \cup (IF venue = "OKX" THEN {"rejected"} ELSE {})

\* app.py 251, 291: requests.post was called
Posted(outcome) == outcome # "error"

\* the venue made an order of the request
AcceptedByVenue(outcome) == outcome \in {"post_lost", "filled"}

\* the venue refused the order with an error status (Binance answers an order
\* it rejects with status 400 and its error code)
RejectedByStatus(outcome) == outcome = "http_error"

\* every order sent with the scheduler's fixed quantity 0.01 (app.py 495)
OrderQuantityFixed(r) == MinQty

\* app.py 431, 434, 443, 446: the quantity argument of the order calls is the
\* local `quantity` of line 420
OrderQuantity(r) == r.quantity

\* the history fields of the order call after one more attempt
Attempted(r, outcome) ==
    [r EXCEPT !.rejections = @ + (IF RejectedByStatus(outcome) THEN 1 ELSE 0),
              !.accepted = @ + (IF AcceptedByVenue(outcome) THEN 1 ELSE 0)]

\* app.py 233, 251, 270, 291: the calls one attempt makes to its venue, the
\* server-time call and the order request
CallsOf(outcome) == IF Posted(outcome) THEN 2 ELSE 1

\* app.py 257-261, 297-301: raise_for_status and transport failures raise
\* RequestException, which is logged and raised again
RaisesRequestException(outcome) == outcome \in {"post_timeout", "post_lost", "http_error"}

\* app.py 258, 264, 298, 304: what the call returns when it returns; the id 1
\* stands for the order id the venue gave
ResponseOf(outcome, px) ==
    IF outcome = "filled" THEN [kind |-> "json", accepted |-> TRUE, id |-> 1, px |-> px]
    ELSE IF outcome = "rejected"
         THEN [kind |-> "json", accepted |-> FALSE, id |-> NoId, px |-> NoPx]
    ELSE ErrorResponse

\* app.py 432, 435, 444, 447: `if "error" in response`
HasError(response) == response.kind = "error"

\* app.py 230, 267: @retry gives up after `tries` attempts and lets the
\* exception out
RetriesLeft(attempt) == attempt < tries

\* app.py 430-433, 443-445: one attempt of the buy order, and what the
\* orchestrator does with its result
BuyLeg(t, outcome, px) ==
    /\ run[t].pc = "buy"
    /\ outcome \in Outcomes(run[t].buy_exchange)
    /\ (outcome # "filled" => px = NoPx)
    /\ LET r == Attempted([run[t] EXCEPT !.buy_posted = @ \/ Posted(outcome),
                                         !.buy_quantity = IF Posted(outcome)
                                                          THEN OrderQuantity(run[t]) ELSE @],
                          outcome)
       IN  run' = [run EXCEPT ![t] =
             IF RaisesRequestException(outcome)
             THEN IF RetriesLeft(r.attempt)
                  THEN [r EXCEPT !.attempt = @ + 1]
                  ELSE Answer(r, 500, "RequestException")
             ELSE LET buy_response == ResponseOf(outcome, px)
                  IN  IF HasError(buy_response)
                      THEN Answer(r, 500, "buy failed")
                      ELSE [r EXCEPT !.buy_response = buy_response,
                                     !.buy_filled = buy_response.accepted,
                                     !.pc = "sell", !.attempt = 1,
                                     !.rejections = 0, !.accepted = 0]]
    /\ calls' = CalledVenue(run[t].buy_exchange, CallsOf(outcome))
    /\ UNCHANGED <<LIVE_PRICES, LOT_SIZE_CACHE, trade_history, started, server, calc>>

\* app.py 434-436, 446-448: one attempt of the sell order
SellLeg(t, outcome, px) ==
    /\ run[t].pc = "sell"
    /\ outcome \in Outcomes(run[t].sell_exchange)
    /\ (outcome # "filled" => px = NoPx)
    /\ LET r == Attempted([run[t] EXCEPT !.sell_posted = @ \/ Posted(outcome),
                                         !.sell_quantity = IF Posted(outcome)
                                                           THEN OrderQuantity(run[t]) ELSE @],
                          outcome)
       IN  run' = [run EXCEPT ![t] =
             IF RaisesRequestException(outcome)
             THEN IF RetriesLeft(r.attempt)
                  THEN [r EXCEPT !.attempt = @ + 1]
                  ELSE Answer(r, 500, "RequestException")
             ELSE LET sell_response == ResponseOf(outcome, px)
                  IN  IF HasError(sell_response)
                      THEN Answer(r, 500, "sell failed")
                      ELSE [r EXCEPT !.sell_response = sell_response,
                                     !.sell_filled = sell_response.accepted,
                                     !.pc = "settle",
                                     !.rejections = 0, !.accepted = 0]]
    /\ calls' = CalledVenue(run[t].sell_exchange, CallsOf(outcome))
    /\ UNCHANGED <<LIVE_PRICES, LOT_SIZE_CACHE, trade_history, started, server, calc>>

\* the entry built from the quotes, the fills ignored
FillPriceQuote(px, quote) == quote

\* app.py 440-441, 452-453: float(response.get(field, quote) or quote)
FillPrice(px, quote) == IF px # NoPx THEN px ELSE quote

\* the status taken from the pre-trade check, which every settled run passed
SuccessProjected(profit) == TRUE

\* app.py 456: success = profit > 0
Success(profit) == profit > 0

\* append() for insert(0, ...)
InsertLast(trade_entry, history) == Append(history, trade_entry)

\* app.py 474: trade_history.insert(0, trade_entry)
Insert(trade_entry, history) == <<trade_entry>> \o history

\* app.py 438-472: the ledger entry of a run whose two calls returned without "error"
TradeEntry(r) ==
    LET buy_price == FillPrice(r.buy_response.px, QuoteBuy(r))
        sell_price == FillPrice(r.sell_response.px, QuoteSell(r))
        profit == calculate_profitability(buy_price, sell_price, r.quantity)
    IN  [symbol |-> r.symbol,
         buy_exchange |-> r.buy_exchange,
         sell_exchange |-> r.sell_exchange,
         buy_trade_id |-> r.buy_response.id,
         sell_trade_id |-> r.sell_response.id,
         buy_price |-> buy_price,
         sell_price |-> sell_price,
         quantity |-> r.quantity,
         buy_fee |-> BuyFee(buy_price, r.quantity),
         sell_fee |-> SellFee(sell_price, r.quantity),
         profit |-> RoundedProfit(profit),
         status |-> IF Success(profit) THEN "PROFIT" ELSE "LOSS"]

\* app.py 438-485: the entry is built, inserted and returned
Settle(t) ==
    /\ run[t].pc = "settle"
    /\ trade_history' = Insert(TradeEntry(run[t]), trade_history)
    /\ run' = [run EXCEPT ![t] = Answer([@ EXCEPT !.wrote = @ + 1], 200, "completed")]
    /\ UNCHANGED <<LIVE_PRICES, LOT_SIZE_CACHE, started, server, calls, calc>>

\* --------------------------------------------------------- the price feeds

\* app.py 314-317.  The cache is read only when a request starts (403-404,
\* 490-491): messages are taken while a request can still start.
on_binance_ws_message(s, p) ==
    /\ started < server.requests
    /\ LIVE_PRICES' = [LIVE_PRICES EXCEPT !["Binance"] =
           [k \in DOMAIN @ \cup {s} |-> IF k = s THEN p ELSE @[k]]]
    /\ UNCHANGED <<LOT_SIZE_CACHE, trade_history, run, started, server, calls, calc>>

\* app.py 319-322.  The cache is read only when a request starts (403-404,
\* 490-491): messages are taken while a request can still start.
on_okx_ws_message(s, p) ==
    /\ started < server.requests
    /\ LIVE_PRICES' = [LIVE_PRICES EXCEPT !["OKX"] =
           [k \in DOMAIN @ \cup {s} |-> IF k = s THEN p ELSE @[k]]]
    /\ UNCHANGED <<LOT_SIZE_CACHE, trade_history, run, started, server, calls, calc>>

\* ----------------------------------------------------------- the scheduler

\* app.py 490-505: the job finds a spread worth more than 1 on the symbol
Opportunity(symbol) ==
    LET binance_price == PriceGet("Binance", SUPPORTED_SYMBOLS[symbol].binance)
        okx_price == PriceGet("OKX", SUPPORTED_SYMBOLS[symbol].okx)
    IN  /\ binance_price # 0
        /\ okx_price # 0
        /\ \/ /\ binance_price < okx_price
              /\ calculate_profitability(binance_price, okx_price, MinQty) > FeeDen * QtyScale
           \/ /\ okx_price < binance_price
              /\ calculate_profitability(okx_price, binance_price, MinQty) > FeeDen * QtyScale

\* app.py 488-510: one job of the scheduler.  The job calls the route function
\* through its require_api_key wrapper (343-350, 499, 504), which reads the
\* header of flask.request; the scheduler thread serves no request, so the
\* read raises and the job ends there, before line 387: either way the job
\* changes nothing.
check_arbitrage_opportunities ==
    /\ \/ \E symbol \in DOMAIN SUPPORTED_SYMBOLS : Opportunity(symbol)
       \/ \A symbol \in DOMAIN SUPPORTED_SYMBOLS : ~Opportunity(symbol)
    /\ UNCHANGED vars

\* -------------------------------------------------------- the specification

\* app.py 55-61: the module is loaded, nothing cached, the ledger empty, no
\* call made yet; `metered` names the venues whose outbound calls are counted
InitMetered(threads, requests, metered) ==
    /\ LIVE_PRICES = [v \in Venues |-> <<>>]
    /\ LOT_SIZE_CACHE = <<>>
    /\ trade_history = <<>>
    /\ run = [t \in 1 .. threads |-> IdleRun]
    /\ started = 0
    /\ server = [threads |-> threads, requests |-> requests, metered |-> metered]
    /\ calls = [v \in Venues |-> 0]

InitWith(threads, requests) ==
    /\ InitMetered(threads, requests, {})
    /\ calc = NoCalc

Init == InitWith(MaxThreads, MaxRuns)

\* one more request thread and one more request: requests are served together
InitConcurrent == InitWith(MaxThreads + 1, MaxRuns + 1)

Next ==
    \/ \E t \in Threads, api_key \in ApiKeys, path_symbol \in PathSymbols,
          buy_exchange \in PathExchanges, sell_exchange \in PathExchanges :
            trigger_execute_trade(t, api_key, path_symbol, buy_exchange, sell_exchange)
    \/ \E t \in Threads, found \in BOOLEAN, step_size \in StepSizes :
            exchangeInfo(t, found, step_size)
    \/ \E t \in Threads, outcome \in Outcomes("OKX"), px \in FillPrices \cup {NoPx} :
            BuyLeg(t, outcome, px)
    \/ \E t \in Threads, outcome \in Outcomes("OKX"), px \in FillPrices \cup {NoPx} :
            SellLeg(t, outcome, px)
    \/ \E t \in Threads : Settle(t)
    \/ \E s \in NativeSymbols("Binance"), p \in Prices : on_binance_ws_message(s, p)
    \/ \E s \in NativeSymbols("OKX"), p \in Prices : on_okx_ws_message(s, p)
    \/ check_arbitrage_opportunities
    \/ dashboard
    \/ \E v \in Venues : window_passes(v)

Spec == Init /\ [][Next]_vars

SpecConcurrent == InitConcurrent /\ [][Next]_vars

\* the outbound calls to OKX are counted
InitRate ==
    /\ InitMetered(MaxThreads, MaxRuns, {"OKX"})
    /\ calc = NoCalc

SpecRate == InitRate /\ [][Next]_vars

\* the pure functions are given arguments and called once, nothing else runs
InitCalc ==
    /\ InitMetered(MaxThreads, MaxRuns, {})
    /\ calc \in QuantityArguments \cup ProfitArguments

NextCalc ==
    \/ call_round_quantity
    \/ call_calculate_profitability

SpecCalc == InitCalc /\ [][NextCalc]_vars

\* ---------------------------------------------------------------- properties

Running(r) == r.pc \in {"exchangeInfo", "buy", "sell", "settle"}

Entries == {trade_history[i] : i \in DOMAIN trade_history}

\* C1: in every run (here: one that read both quotes), no sell order request
\* is sent unless the buy call of the run returned an accepted order: a failed
\* buy leg is never followed by a sell
C1_NoSellAfterFailedBuy ==
    \A t \in Threads :
        (run[t].pc = "sell" /\ run[t].binance_price # 0 /\ run[t].okx_price # 0
            /\ run[t].sell_posted)
            => run[t].buy_filled

\* C2: a run whose buy order was accepted and whose sell order was sent and
\* not accepted ends with a ledger entry of status FAILED that keeps the buy
\* leg's order id
C2_PartialFailureInLedger ==
    \A t \in Threads :
        (run[t].pc = "done" /\ run[t].buy_filled /\ run[t].sell_posted /\ ~run[t].sell_filled)
            => /\ run[t].wrote = 1
               /\ \E e \in Entries : e.status = "FAILED" /\ e.buy_trade_id # NoId

\* C3: two runs for the same canonical symbol are never in progress together
C3_NoOverlap ==
    \A t1, t2 \in Threads :
        (t1 # t2 /\ Running(run[t1]) /\ Running(run[t2]))
            => run[t1].symbol # run[t2].symbol

\* C4: a run whose buy leg failed has stopped with a FAILED ledger entry
C4_FailedBuyInLedger ==
    \A t \in Threads :
        (run[t].pc = "done" /\ run[t].message \in {"buy failed", "RequestException"}
            /\ ~run[t].buy_filled)
            => /\ run[t].wrote = 1
               /\ \E e \in Entries : e.status = "FAILED"

\* C5: a run that read an absent quote (0) from either venue sends no order
\* and writes no ledger entry
C5_AbsentQuoteAborts ==
    \A t \in Threads :
        (Running(run[t]) /\ (run[t].binance_price = 0 \/ run[t].okx_price = 0))
            => ~run[t].buy_posted /\ ~run[t].sell_posted /\ run[t].wrote = 0

\* C6: a run is in its order-submitting part only with a projected profit
\* above 0, and a run answered "not profitable" sent no order and wrote no
\* ledger entry
C6_NotProfitableAborts ==
    \A t \in Threads :
        /\ run[t].pc \in {"buy", "sell", "settle"}
            => calculate_profitability(QuoteBuy(run[t]), QuoteSell(run[t]),
                                       run[t].quantity) > 0
        /\ run[t].message = "Trade not profitable after fees"
            => /\ run[t].pc = "done" /\ run[t].status = 400
               /\ ~run[t].buy_posted /\ ~run[t].sell_posted /\ run[t].wrote = 0

C6_Witness ==
    \E t \in Threads :
        /\ run[t].message = "Trade not profitable after fees"
        /\ started = 1
        /\ PriceGet("Binance", "BTCUSDT") = 100 /\ PriceGet("OKX", "BTC-USDT") = 100
        /\ trade_history = <<>>

\* C7: a run that is submitting or has submitted an order found the lot size of
\* its instrument in the cache or fetched it, and a run answered "LOT_SIZE not
\* found" sent no order
C7_NoOrderWithoutLotSize ==
    \A t \in Threads :
        /\ (run[t].pc \in {"buy", "sell", "settle"} \/ run[t].buy_posted \/ run[t].sell_posted)
            => /\ SUPPORTED_SYMBOLS[run[t].symbol].binance \in DOMAIN LOT_SIZE_CACHE
               /\ ~LotMissing(LOT_SIZE_CACHE[SUPPORTED_SYMBOLS[run[t].symbol].binance])
        /\ run[t].message = "LOT_SIZE not found"
            => ~run[t].buy_posted /\ ~run[t].sell_posted /\ run[t].wrote = 0

C7_Witness ==
    \E t \in Threads :
        /\ run[t].pc = "sell" /\ run[t].buy_posted
        /\ LOT_SIZE_CACHE[SUPPORTED_SYMBOLS[run[t].symbol].binance] = <<100, 2>>

\* C8: every step leaves the ledger as it was or puts one new entry at its
\* head, the older entries unchanged and in their order, and no run inserts
\* more than one entry
C8_LedgerAppendOnly ==
    [][/\ \/ trade_history' = trade_history
          \/ /\ Len(trade_history') = Len(trade_history) + 1
             /\ Tail(trade_history') = trade_history
       /\ \A t \in Threads : run'[t].wrote <= 1]_vars

C8_Witness ==
    /\ Len(trade_history) = 2
    /\ trade_history[1] # trade_history[2]

\* C9: the status of every ledger entry is PROFIT when the profit realized at
\* the recorded prices and quantity is above 0, and LOSS otherwise
C9_StatusIsSignOfRealizedProfit ==
    \A e \in Entries :
        e.status = (IF calculate_profitability(e.buy_price, e.sell_price, e.quantity) > 0
                    THEN "PROFIT" ELSE "LOSS")

C9_Witness ==
    \E e \in Entries : e.status = "LOSS" /\ e.buy_price = 300 /\ e.sell_price = 300

C11_QuantityOnStepAboveFloor ==
    (calc.fn = "quantity" /\ calc.called)
        => /\ calc.result % calc.step_size = 0
           /\ calc.result >= MinQty

\* C12: an order that the venue rejects is sent once: in no order call (here:
\* of a run that read both quotes) does the venue reject a second order request
\* of the call, and no call makes more than `tries` attempts
C12_RejectionNotRetried ==
    \A t \in Threads :
        (run[t].binance_price # 0 /\ run[t].okx_price # 0)
            => /\ run[t].rejections <= 1
               /\ run[t].attempt <= tries

\* C13: the profit calculate_profitability returns is
\* sell_price*qty*(1 - sell_fee) - buy_price*qty*(1 + buy_fee), a value fixed by
\* its arguments, and with prices and quantity above 0 every higher buy fee and
\* every higher sell fee gives a strictly lower profit
C13_ProfitFormulaDecreasingInFees ==
    (calc.fn = "profit" /\ calc.called)
        => /\ calc.result = calc.sell_price * calc.quantity * (FeeDen - calc.sell_fee)
                              - calc.buy_price * calc.quantity * (FeeDen + calc.buy_fee)
           /\ \A f \in FeeRates :
                 f > calc.buy_fee
                     => calculate_profitability_at(calc.buy_price, calc.sell_price,
                            calc.quantity, f, calc.sell_fee) < calc.result
           /\ \A f \in FeeRates :
                 f > calc.sell_fee
                     => calculate_profitability_at(calc.buy_price, calc.sell_price,
                            calc.quantity, calc.buy_fee, f) < calc.result

C13_Witness ==
    /\ calc.fn = "profit" /\ calc.called
    /\ calc.buy_price = 100 /\ calc.sell_price = 300 /\ calc.quantity = 1000
    /\ calc.buy_fee = 1 /\ calc.sell_fee = 2
    /\ calc.result = 199300000

\* C14: in no time window are more outbound calls made to a venue than its
\* budget allows
C14_CallsWithinBudget == \A v \in Venues : calls[v] <= Budget(v)

\* C15: a request is answered 200 exactly when its run wrote a ledger entry,
\* and a run with a failed leg (its order request was sent and the call did
\* not return an accepted order) is answered with another status
C15_AnswerMatchesOutcome ==
    \A t \in Threads :
        run[t].pc = "done"
            => /\ (run[t].status = 200) <=> (run[t].wrote = 1)
               /\ ((run[t].buy_posted /\ ~run[t].buy_filled)
                      \/ (run[t].sell_posted /\ ~run[t].sell_filled))
                     => run[t].status # 200

\* C16: in a run in progress, the buy order request and the sell order request
\* were sent for the same quantity, the quantity of the run with which its
\* pre-trade profitability check came out above 0
C16_BothLegsCheckedQuantity ==
    \A t \in Threads :
        Running(run[t])
            => /\ run[t].buy_posted
                    => /\ run[t].buy_quantity = run[t].quantity
                       /\ calculate_profitability(QuoteBuy(run[t]), QuoteSell(run[t]),
                                                  run[t].buy_quantity) > 0
               /\ run[t].sell_posted
                    => /\ run[t].buy_posted
                       /\ run[t].sell_quantity = run[t].buy_quantity

C16_Witness ==
    \E t \in Threads :
        /\ run[t].pc = "settle"
        /\ run[t].buy_posted /\ run[t].sell_posted
        /\ run[t].buy_quantity = 1000 /\ run[t].sell_quantity = 1000

\* C17: a venue accepts at most one order of each leg of a run (here: a run
\* that read both quotes): no step makes a second accepted order of the order
\* call in progress, and the step in which a call returns an accepted order is
\* taken with no order of that call accepted before
C17_OneAcceptedOrderPerLeg ==
    [][\A t \in Threads :
          (run[t].binance_price # 0 /\ run[t].okx_price # 0)
              => /\ run'[t].accepted <= 1
                 /\ ((run[t].pc = "buy" /\ run'[t].pc = "sell" /\ run'[t].buy_filled)
                        \/ (run[t].pc = "sell" /\ run'[t].pc = "settle" /\ run'[t].sell_filled))
                       => run[t].accepted = 0]_vars

\* C18: a trigger request answered 401 for its key, or 400 for its symbol or
\* its venue names, changes neither the price cache nor the lot-size cache nor
\* the ledger, makes no outbound call and sends no order; and the requests that
\* do become a run name a supported symbol and two different known venues
C18_RejectedRequestHasNoEffect ==
    [][/\ started' = started + 1
            => \A t \in Threads :
                  ((run'[t] # run[t] \/ run' = run) /\ run'[t].message \in AbortDescriptions)
                      => /\ run'[t].pc = "done" /\ run'[t].status \in {400, 401}
                         /\ ~run'[t].buy_posted /\ ~run'[t].sell_posted /\ run'[t].wrote = 0
                         /\ UNCHANGED <<LIVE_PRICES, LOT_SIZE_CACHE, trade_history, calls>>
       /\ \A t \in Threads :
             Running(run'[t])
                 => /\ run'[t].symbol \in DOMAIN SUPPORTED_SYMBOLS
                    /\ run'[t].buy_exchange \in Venues
                    /\ run'[t].sell_exchange \in Venues
                    /\ run'[t].buy_exchange # run'[t].sell_exchange]_vars

C18_Witness ==
    \E t \in Threads :
        /\ run[t].pc = "done" /\ run[t].status = 400 /\ run[t].message = "Invalid exchange"
        /\ PriceGet("Binance", "BTCUSDT") = 100 /\ PriceGet("OKX", "BTC-USDT") = 300
        /\ trade_history = <<>>
        /\ LOT_SIZE_CACHE = <<>>

\* C19 as stated: an entry with status PROFIT records a profit above 0 and an
\* entry with status LOSS records a profit of 0 or below
C19_RecordedProfitAgreesStrictly ==
    \A e \in Entries :
        /\ e.status = "PROFIT" => e.profit > 0
        /\ e.status = "LOSS" => e.profit <= 0

\* C19 amended: an entry with status PROFIT records a profit of 0 or above (0
\* when the realized profit is below half a cent), an entry with status LOSS a
\* profit of 0 or below, and the recorded profit is the realized profit of the
\* recorded prices and quantity rounded to cents
C19_RecordedProfitAgrees ==
    \A e \in Entries :
        /\ e.status = "PROFIT" => e.profit >= 0
        /\ e.status = "LOSS" => e.profit <= 0
        /\ e.profit * ((FeeDen * QtyScale) \div 100)
             - calculate_profitability(e.buy_price, e.sell_price, e.quantity)
               \in (0 - (FeeDen * QtyScale) \div 200) .. ((FeeDen * QtyScale) \div 200)

C19_Witness ==
    \E e \in Entries :
        /\ e.status = "PROFIT" /\ e.profit = 0
        /\ e.buy_price = 480 /\ e.sell_price = 481 /\ e.quantity = 1000

====
